---- MODULE Spec2Model ----
(***************************************************************************)
(* Model of the YouTube transcript summarizer: the URL parser, the          *)
(* component functions of app.py, the interactive CLI of app.py and the     *)
(* POST /api/process handler of flask-backend.py.                           *)
(*                                                                          *)
(* A URL is a sequence of tokens: the delimiters ":", "//", "/", "?", "#",  *)
(* "&", "=", "[", "]", "@" and text chunks that contain no delimiter.       *)
(* A Python value that may be None, a string or a raised exception is a     *)
(* record [t |-> "None"], [t |-> "str", v |-> ...] or [t |-> "raise"].      *)
(***************************************************************************)
EXTENDS Integers, Sequences, FiniteSets, TLC

VARIABLES
    urlIn,      \* SpecUrl: the URL handed to get_video_id
    urlOut,     \* SpecUrl: what get_video_id returned (Pending before the call)
    rq,         \* process_video: per request, its position and its locals
    tts,        \* text_to_audio: per caller, the state of the call in progress
    fs,         \* the files on disk: the audio directory and the CLI's summary.mp3
    cli,        \* the CLI session of app.py: its position and its locals
    hist,       \* what the answered requests did: files served and files opened
    got         \* the answer to the last GET request

vars == <<urlIn, urlOut, rq, tts, fs, cli, hist, got>>

(***************************************************************************)
(* Python values                                                            *)
(***************************************************************************)
None == [t |-> "None"]
Pending == [t |-> "pending"]
Raise == [t |-> "raise"]
Str(s) == [t |-> "str", v |-> s]

\* Python truthiness of an optional string: None and "" are falsy.
Truthy(x) == x.t = "str" /\ x.v # <<>>

(***************************************************************************)
(* Sequence helpers                                                         *)
(***************************************************************************)
Elems(s) == {s[i] : i \in 1..Len(s)}

\* index of the first element of s that is in D, Len(s)+1 when there is none
FirstIn(s, D) ==
    IF \E i \in 1..Len(s) : s[i] \in D
    THEN CHOOSE i \in 1..Len(s) : s[i] \in D /\ \A j \in 1..(i-1) : s[j] \notin D
    ELSE Len(s) + 1

\* index of the last element of s that is in D, 0 when there is none
LastIn(s, D) ==
    IF \E i \in 1..Len(s) : s[i] \in D
    THEN CHOOSE i \in 1..Len(s) : s[i] \in D /\ \A j \in (i+1)..Len(s) : s[j] \notin D
    ELSE 0

Before(s, i) == SubSeq(s, 1, i - 1)
After(s, i) == SubSeq(s, i + 1, Len(s))

\* str.split(sep) on a token sequence
RECURSIVE Split(_, _)
Split(s, sep) ==
    LET i == FirstIn(s, {sep})
    IN  IF i > Len(s) THEN <<s>>
        ELSE <<Before(s, i)>> \o Split(After(s, i), sep)

(***************************************************************************)
(* urllib.parse.urlparse and parse_qs, as get_video_id uses them            *)
(***************************************************************************)
Delims == {":", "//", "/", "?", "#", "&", "=", "[", "]", "@"}

\* str.lower() on the text chunks the model uses
Lower(c) ==
    CASE c = "WWW.YOUTUBE.COM" -> "www.youtube.com"
      [] c = "Youtu.be" -> "youtu.be"
      [] c = "AUDIO" -> "audio"
      [] c = "Summary" -> "summary"
      [] OTHER -> c

\* urlparse(url): scheme, netloc, path, query, fragment; raises ValueError
\* when the netloc has an unbalanced square bracket.
urlparse(url) ==
    LET hasScheme == Len(url) >= 2 /\ url[2] = ":" /\ url[1] \notin Delims
        rest1 == IF hasScheme THEN After(url, 2) ELSE url
        hasNetloc == Len(rest1) >= 1 /\ rest1[1] = "//"
        afterSl == After(rest1, 1)
        nEnd == FirstIn(afterSl, {"/", "?", "#"})
        netloc == IF hasNetloc THEN Before(afterSl, nEnd) ELSE <<>>
        rest2 == IF hasNetloc THEN SubSeq(afterSl, nEnd, Len(afterSl)) ELSE rest1
        fPos == FirstIn(rest2, {"#"})
        rest3 == Before(rest2, fPos)
        qPos == FirstIn(rest3, {"?"})
    IN  IF ("[" \in Elems(netloc)) # ("]" \in Elems(netloc))
        THEN Raise
        ELSE [t |-> "parsed",
              scheme |-> IF hasScheme THEN Lower(url[1]) ELSE "",
              netloc |-> netloc,
              path |-> Before(rest3, qPos),
              query |-> After(rest3, qPos),
              fragment |-> After(rest2, fPos)]

\* ParseResult.hostname: the netloc without userinfo and port, lowercased;
\* None when it is empty.
hostname(netloc) ==
    LET noUser == After(netloc, LastIn(netloc, {"@"}))
        host == Before(noUser, FirstIn(noUser, {":"}))
    IN  IF host = <<>> THEN None ELSE Str([i \in 1..Len(host) |-> Lower(host[i])])

\* the name=value pairs parse_qs keeps: a pair without "=" or with an empty
\* value is dropped (keep_blank_values=False, strict_parsing=False)
RECURSIVE KeptPairs(_)
KeptPairs(fields) ==
    IF fields = <<>> THEN <<>>
    ELSE LET f == Head(fields)
             e == FirstIn(f, {"="})
             name == Before(f, e)
             value == After(f, e)
         IN  (IF e <= Len(f) /\ value # <<>>
              THEN <<[name |-> name, value |-> value]>> ELSE <<>>)
             \o KeptPairs(Tail(fields))

\* parse_qs(query).get(key, [None])[0]
parse_qs_first(query, key) ==
    LET pairs == KeptPairs(Split(query, "&"))
        hits == SelectSeq(pairs, LAMBDA p : p.name = <<key>>)
    IN  IF hits = <<>> THEN None ELSE Str(hits[1].value)

get_video_id(url) ==
    LET parsed_url == urlparse(url)
    IN  IF parsed_url.t = "raise" THEN Raise
        ELSE LET h == hostname(parsed_url.netloc)
             IN  IF h \in {Str(<<"www.youtube.com">>), Str(<<"youtube.com">>)}
                 THEN parse_qs_first(parsed_url.query, "v")
                 ELSE IF h = Str(<<"youtu.be">>)
                 THEN Str(After(parsed_url.path, 1))
                 ELSE None

(***************************************************************************)
(* The URLs the parser is checked on: every combination of the parts below, *)
(* flattened to one token sequence.                                         *)
(***************************************************************************)
ID1 == "abc12345678"
ID2 == "dQw4w9WgXcQ"

UrlSchemes == {<<"https", ":", "//">>, <<"http", ":", "//">>, <<"//">>, <<>>}
UrlHosts ==
    {<<"www.youtube.com">>, <<"youtube.com">>, <<"youtu.be">>,
     <<"WWW.YOUTUBE.COM">>, <<"youtube.com", ":", "443">>,
     <<"m.youtube.com">>, <<"vimeo.com">>, <<"[", "youtu.be">>}
UrlPaths ==
    {<<>>, <<"/">>, <<"/", "watch">>, <<"/", ID1>>, <<"/", ID2>>}
UrlQueries ==
    {<<>>, <<"?">>, <<"?", "v", "=", ID1>>, <<"?", "v", "=">>, <<"?", "v">>,
     <<"?", "t", "=", "1", "&", "v", "=", ID2>>,
     <<"?", "v", "=", ID1, "&", "t", "=", "1">>,
     <<"?", "list", "=", ID1>>}
UrlFragments == {<<>>, <<"#", "t">>}

UrlParts ==
    [scheme : UrlSchemes, host : UrlHosts, path : UrlPaths,
     query : UrlQueries, fragment : UrlFragments]

Flatten(p) == p.scheme \o p.host \o p.path \o p.query \o p.fragment

(***************************************************************************)
(* Text is a sequence of tokens too; " " is whitespace.                     *)
(***************************************************************************)
\* str.strip()
RECURSIVE Strip(_)
Strip(s) ==
    IF s = <<>> THEN s
    ELSE IF Head(s) = " " THEN Strip(Tail(s))
    ELSE IF s[Len(s)] = " " THEN Strip(Before(s, Len(s)))
    ELSE s

\* " ".join(parts)
RECURSIVE Join(_)
Join(parts) ==
    IF parts = <<>> THEN <<>>
    ELSE IF Len(parts) = 1 THEN <<parts[1]>>
    ELSE <<parts[1], " ">> \o Join(Tail(parts))

(***************************************************************************)
(* The external services.  Each call either raises or returns.              *)
(***************************************************************************)
Ok(x) == [t |-> "ok", v |-> x]

\* YouTubeTranscriptApi().fetch: the caption segments in chronological order
CaptionOutcomes == {Raise, Ok(<<>>), Ok(<<"seg1", "seg2">>)}

\* model.generate_content(prompt) and response.text
GenOutcomes ==
    {Raise,
     Ok(<<" ", "Generated text.", " ">>),
     Ok(<<"Sorry, couldn't make summary">>),
     Ok(<<"Sorry, couldn't make notes">>)}

(***************************************************************************)
(* app.py: the component functions                                          *)
(***************************************************************************)
\* get_transcript when it lets the exception of the captioning service through
get_transcript_unguarded(video_id, outcome) ==
    IF outcome.t = "raise" THEN Raise ELSE Str(Join(outcome.v))

get_transcript(video_id, outcome) ==
    IF outcome.t = "raise" THEN None ELSE Str(Join(outcome.v))

\* the strings generate_summary and generate_notes return on failure
SummaryFailedText == <<"Summary generation failed. Please try again.">>
NotesFailedText == <<"Notes generation failed. Please try again.">>

generate_summary(text, outcome) ==
    IF outcome.t = "raise" THEN Str(SummaryFailedText) ELSE Str(Strip(outcome.v))

generate_notes(text, outcome) ==
    IF outcome.t = "raise" THEN Str(NotesFailedText) ELSE Str(Strip(outcome.v))

(***************************************************************************)
(* JSON values of a request body                                            *)
(***************************************************************************)
Absent == [j |-> "absent"]
JNull == [j |-> "null"]
JNum(n) == [j |-> "num", n |-> n]
JStr(s) == [j |-> "str", s |-> s]
JList == [j |-> "list"]         \* a non-empty list of numbers
JObj(u, o, a) == [j |-> "obj", url |-> u, operation |-> o, audio_filename |-> a]

\* bool(value)
JTruthy(x) ==
    CASE x.j = "null" -> FALSE
      [] x.j = "num" -> x.n # 0
      [] x.j = "str" -> x.s # <<>>
      [] x.j = "list" -> TRUE
      [] x.j = "obj" -> {x.url, x.operation, x.audio_filename} # {Absent}
      [] OTHER -> FALSE

Field(data, field) ==
    CASE field = "url" -> data.url
      [] field = "operation" -> data.operation
      [] OTHER -> data.audio_filename

U_watch == <<"https", ":", "//", "www.youtube.com", "/", "watch", "?", "v", "=", ID1>>
U_short == <<"https", ":", "//", "youtu.be", "/", ID1>>
U_short2 == <<"https", ":", "//", "youtu.be", "/", ID2>>
U_vimeo == <<"https", ":", "//", "vimeo.com", "/", "123">>
U_nopath == <<"https", ":", "//", "youtu.be", "/">>
U_bracket == <<"https", ":", "//", "[", "youtu.be", "/", ID1>>

U_tiny == <<"https", ":", "//", "youtu.be", "/", "abc">>

PipelineUrls == {U_watch, U_short, U_short2, U_vimeo, U_nopath, U_bracket}

ValidOperations == {<<"transcript">>, <<"summary">>, <<"notes">>, <<"audio">>}

UrlVals == {Absent, JStr(<<>>), JNum(5)} \cup {JStr(u) : u \in PipelineUrls}
OpVals ==
    {Absent, JStr(<<>>), JNum(5), JStr(<<"AUDIO">>), JStr(<<"bogus">>)}
    \cup {JStr(o) : o \in ValidOperations}
FnVals == {Absent, JStr(<<>>), JStr(<<"a">>)}

\* the bodies a single request is checked on
Bodies ==
    {JNull, JNum(5), JList}
    \cup {JObj(u, o, a) : u \in UrlVals, o \in OpVals, a \in FnVals}

\* the bodies concurrent requests are checked on
ConcBodies ==
    {JObj(JStr(U_short), JStr(o), Absent) : o \in ValidOperations}
    \cup {JObj(JStr(U_short), JStr(<<"audio">>), JStr(<<"a">>)),
          JObj(JStr(U_short2), JStr(<<"audio">>), JStr(<<"a">>)),
          JObj(JStr(U_vimeo), JStr(<<"audio">>), Absent)}

(***************************************************************************)
(* Files.  fs maps the path of every existing file to its content: the      *)
(* chunks written, each tagged with the caller that wrote it ("-" is a      *)
(* hole left by a write past the end of the file).                          *)
(***************************************************************************)
MaxChunks == 2      \* audio chunks one synthesis writes at most

Reqs == {"r1", "r2"}            \* the requests a threaded server handles at once
Callers == Reqs \cup {"cli"}    \* who can be inside text_to_audio

AUDIO_DIR == <<"audio_files", "/">>

IdleTts ==
    [pc |-> "idle", filename |-> <<>>, offset |-> 0, opened |-> FALSE,
     ext |-> "none", ret |-> Pending]

\* file.write(chunk) at the caller's own file offset
WriteAt(data, offset, tag) ==
    IF offset < Len(data)
    THEN [data EXCEPT ![offset + 1] = tag]
    ELSE data \o [i \in 1..(offset - Len(data)) |-> "-"] \o <<tag>>

(***************************************************************************)
(* app.py text_to_audio(summary, filename), in the steps of gTTS.save: the  *)
(* file is opened for writing (created or truncated), the chunks of the     *)
(* speech service are written as they arrive, and any exception on the way  *)
(* is caught and turned into None.                                          *)
(***************************************************************************)
\* the call itself: part of the caller's action
TtsCall(w, filename) ==
    tts' = [tts EXCEPT ![w] = [IdleTts EXCEPT !.pc = "called", !.filename = filename]]

\* gTTS(...) raises, or the file cannot be opened: nothing is written
TtsFailEarly(w) ==
    /\ tts[w].pc = "called"
    /\ tts' = [tts EXCEPT ![w].pc = "returned", ![w].ext = "raise", ![w].ret = None]
    /\ UNCHANGED <<fs, rq, cli, urlIn, urlOut, hist, got>>

\* an open that waits until no other caller has the same file open
TtsSaveOpenLocked(w) ==
    /\ tts[w].pc = "called"
    /\ \A o \in Callers \ {w} : ~(tts[o].pc = "open" /\ tts[o].filename = tts[w].filename)
    /\ fs' = (tts[w].filename :> <<>>) @@ fs
    /\ tts' = [tts EXCEPT ![w].pc = "open", ![w].opened = TRUE]
    /\ UNCHANGED <<rq, cli, urlIn, urlOut, hist, got>>

\* open(filename, "wb"): creates the file or truncates it
TtsSaveOpen(w) ==
    /\ tts[w].pc = "called"
    /\ fs' = (tts[w].filename :> <<>>) @@ fs
    /\ tts' = [tts EXCEPT ![w].pc = "open", ![w].opened = TRUE]
    /\ UNCHANGED <<rq, cli, urlIn, urlOut, hist, got>>

\* one chunk of audio arrives and is written
TtsWrite(w) ==
    /\ tts[w].pc = "open"
    /\ tts[w].offset < MaxChunks
    /\ fs' = [fs EXCEPT ![tts[w].filename] = WriteAt(@, tts[w].offset, w)]
    /\ tts' = [tts EXCEPT ![w].offset = @ + 1]
    /\ UNCHANGED <<rq, cli, urlIn, urlOut, hist, got>>

\* the speech service fails while the file is open
TtsSaveFail(w) ==
    /\ tts[w].pc = "open"
    /\ tts' = [tts EXCEPT ![w].pc = "returned", ![w].ext = "raise", ![w].ret = None]
    /\ UNCHANGED <<fs, rq, cli, urlIn, urlOut, hist, got>>

\* all chunks written: the file is closed and the filename returned
TtsSaveDone(w) ==
    /\ tts[w].pc = "open"
    /\ tts[w].offset >= 1
    /\ tts' = [tts EXCEPT ![w].pc = "returned", ![w].ext = "ok",
                           ![w].ret = Str(tts[w].filename)]
    /\ UNCHANGED <<fs, rq, cli, urlIn, urlOut, hist, got>>

(***************************************************************************)
(* flask-backend.py: response envelopes and request validation              *)
(***************************************************************************)
create_success_response(data) ==
    [status |-> "success", http |-> 200, data |-> data]

create_error_response(error_code, status_code) ==
    [status |-> "error", http |-> status_code, error_code |-> error_code]

\* the except clause at the end of process_video
InternalError == create_error_response("INTERNAL_ERROR", 500)

\* validate_request_data(data, required_fields): raises TypeError when
\* "field in data" is not defined for data (a number)
validate_request_data(data, required_fields) ==
    IF data.j = "num" THEN Raise
    ELSE LET missing_fields ==
                 SelectSeq(required_fields,
                           LAMBDA field : \/ data.j # "obj"
                                          \/ Field(data, field) = Absent
                                          \/ ~JTruthy(Field(data, field)))
         IN  [t |-> "ret", is_valid |-> missing_fields = <<>>,
              missing_fields |-> missing_fields]

\* the strings process_video compares the generated text with
SummarySentinel == <<"Sorry, couldn't make summary">>
NotesSentinel == <<"Sorry, couldn't make notes">>

\* summary == "Sorry, couldn't make summary"
SummaryFailureDetected(summary) == summary = Str(SummarySentinel)
\* notes == "Sorry, couldn't make notes"
NotesFailureDetected(notes) == notes = Str(NotesSentinel)

(***************************************************************************)
(* flask-backend.py: process_video, POST /api/process                       *)
(***************************************************************************)
IdleReq ==
    [pc |-> "idle", body |-> JNull, url |-> Absent, operation |-> <<>>,
     audio_filename |-> Absent, video_id |-> None, transcript |-> None,
     summary |-> None, audio_file |-> <<>>, stage |-> "receive",
     calls |-> <<>>, stat_data |-> <<>>, resp |-> Pending]

\* one entry of the log of calls: the function, its argument, what the external
\* service did ("ok", "raise"; "none" when there is none) and the value returned
Call(fn, arg, ext, ret) == [fn |-> fn, arg |-> arg, ext |-> ext, ret |-> ret]

\* return a response: the request is over
Return(r, stage, resp, calls) ==
    rq' = [rq EXCEPT ![r].pc = "done", ![r].stage = stage, ![r].resp = resp,
                     ![r].calls = calls]

\* a request arrives
Receive(r, body) ==
    /\ rq[r].pc = "idle"
    /\ rq' = [rq EXCEPT ![r] = [IdleReq EXCEPT !.pc = "received", !.body = body]]
    /\ UNCHANGED <<tts, fs, cli, urlIn, urlOut, hist, got>>

\* the only request in flight
ReceiveOne(r) ==
    /\ \A q \in Reqs \ {r} : rq[q].pc = "idle"
    /\ \E body \in Bodies : Receive(r, body)

\* a threaded server
ReceiveAny(r) ==
    \E body \in ConcBodies : Receive(r, body)

\* the same without the test of the operation against valid_operations
ValidatePayloadAnyOperation(r) ==
    /\ rq[r].pc = "received"
    /\ LET data == rq[r].body
           v == validate_request_data(data, <<"url", "operation">>)
       IN  IF ~JTruthy(data)
           THEN Return(r, "validate", create_error_response("INVALID_REQUEST", 400),
                       rq[r].calls)
           ELSE IF v.t = "raise"
           THEN Return(r, "validate", InternalError, rq[r].calls)
           ELSE IF ~v.is_valid
           THEN Return(r, "validate", create_error_response("MISSING_FIELDS", 400),
                       rq[r].calls)
           ELSE IF data.operation.j # "str"
           THEN Return(r, "validate", InternalError, rq[r].calls)
           ELSE LET operation == [i \in 1..Len(data.operation.s) |->
                                      Lower(data.operation.s[i])]
                IN  rq' = [rq EXCEPT ![r].pc = "validated",
                           ![r].url = data.url,
                           ![r].operation = operation,
                           ![r].audio_filename = data.audio_filename]
    /\ UNCHANGED <<tts, fs, cli, urlIn, urlOut, hist, got>>

\* lines 135-156: get_json, the required fields, the operation
ValidatePayload(r) ==
    /\ rq[r].pc = "received"
    /\ LET data == rq[r].body
           v == validate_request_data(data, <<"url", "operation">>)
       IN  IF ~JTruthy(data)
           THEN Return(r, "validate", create_error_response("INVALID_REQUEST", 400),
                       rq[r].calls)
           ELSE IF v.t = "raise"
           THEN Return(r, "validate", InternalError, rq[r].calls)
           ELSE IF ~v.is_valid
           THEN Return(r, "validate", create_error_response("MISSING_FIELDS", 400),
                       rq[r].calls)
           ELSE IF data.operation.j # "str"
           THEN Return(r, "validate", InternalError, rq[r].calls)
           ELSE LET operation == [i \in 1..Len(data.operation.s) |->
                                      Lower(data.operation.s[i])]
                IN  IF operation \notin ValidOperations
                    THEN Return(r, "validate",
                                create_error_response("INVALID_OPERATION", 400),
                                rq[r].calls)
                    ELSE rq' = [rq EXCEPT ![r].pc = "validated",
                                          ![r].url = data.url,
                                          ![r].operation = operation,
                                          ![r].audio_filename = data.audio_filename]
    /\ UNCHANGED <<tts, fs, cli, urlIn, urlOut, hist, got>>

\* get_video_id(url) for the URLs the requests carry, computed once
VideoIdOf == [url \in PipelineUrls \cup {U_tiny} |-> get_video_id(url)]

\* lines 158-165: get_video_id(url)
ResolveVideoId(r) ==
    /\ rq[r].pc = "validated"
    /\ LET url == rq[r].url
           video_id == IF url.j = "str" THEN VideoIdOf[url.s] ELSE Raise
           calls == Append(rq[r].calls, Call("get_video_id", IF url.j = "str" THEN Str(url.s) ELSE None, "none", video_id))
       IN  IF video_id.t = "raise"
           THEN Return(r, "resolve", InternalError, calls)
           ELSE IF ~Truthy(video_id)
           THEN Return(r, "resolve", create_error_response("INVALID_URL", 400), calls)
           ELSE rq' = [rq EXCEPT ![r].pc = "resolved", ![r].video_id = video_id,
                                 ![r].calls = calls]
    /\ UNCHANGED <<tts, fs, cli, urlIn, urlOut, hist, got>>

\* a fetch that goes on whatever get_transcript returned
FetchTranscriptUnchecked(r) ==
    /\ rq[r].pc = "resolved"
    /\ \E outcome \in CaptionOutcomes :
         LET transcript == get_transcript(rq[r].video_id, outcome)
             calls == Append(rq[r].calls,
                             Call("get_transcript", rq[r].video_id, outcome.t, transcript))
         IN  rq' = [rq EXCEPT ![r].pc = "fetched", ![r].transcript = transcript,
                              ![r].calls = calls]
    /\ UNCHANGED <<tts, fs, cli, urlIn, urlOut, hist, got>>

\* lines 167-174: get_transcript(video_id)
FetchTranscript(r) ==
    /\ rq[r].pc = "resolved"
    /\ \E outcome \in CaptionOutcomes :
         LET transcript == get_transcript(rq[r].video_id, outcome)
             calls == Append(rq[r].calls, Call("get_transcript", rq[r].video_id, outcome.t, transcript))
         IN  IF transcript.t = "raise"
             THEN Return(r, "fetch", InternalError, calls)
             ELSE IF ~Truthy(transcript)
             THEN Return(r, "fetch",
                         create_error_response("TRANSCRIPT_UNAVAILABLE", 404), calls)
             ELSE rq' = [rq EXCEPT ![r].pc = "fetched", ![r].transcript = transcript,
                                   ![r].calls = calls]
    /\ UNCHANGED <<tts, fs, cli, urlIn, urlOut, hist, got>>

\* lines 179-186
TranscriptOp(r) ==
    /\ rq[r].pc = "fetched"
    /\ rq[r].operation = <<"transcript">>
    /\ Return(r, "dispatch",
              create_success_response([video_id |-> rq[r].video_id,
                                       transcript |-> rq[r].transcript]),
              rq[r].calls)
    /\ UNCHANGED <<tts, fs, cli, urlIn, urlOut, hist, got>>

\* a summary operation that calls generate_summary again when it failed
SummaryOpRetry(r) ==
    /\ rq[r].pc = "fetched"
    /\ rq[r].operation = <<"summary">>
    /\ \E outcome \in GenOutcomes, second \in GenOutcomes :
         LET first == generate_summary(rq[r].transcript, outcome)
             summary == IF outcome.t = "raise"
                        THEN generate_summary(rq[r].transcript, second) ELSE first
             c1 == Call("generate_summary", rq[r].transcript, outcome.t, first)
             c2 == Call("generate_summary", rq[r].transcript, second.t, summary)
             calls == rq[r].calls \o (IF outcome.t = "raise" THEN <<c1, c2>> ELSE <<c1>>)
         IN  IF SummaryFailureDetected(summary)
             THEN Return(r, "dispatch",
                         create_error_response("SUMMARY_GENERATION_FAILED", 500), calls)
             ELSE Return(r, "dispatch",
                         create_success_response([video_id |-> rq[r].video_id,
                                                  summary |-> summary]),
                         calls)
    /\ UNCHANGED <<tts, fs, cli, urlIn, urlOut, hist, got>>

\* lines 188-200
SummaryOp(r) ==
    /\ rq[r].pc = "fetched"
    /\ rq[r].operation = <<"summary">>
    /\ \E outcome \in GenOutcomes :
         LET summary == generate_summary(rq[r].transcript, outcome)
             calls == Append(rq[r].calls, Call("generate_summary", rq[r].transcript, outcome.t, summary))
         IN  IF SummaryFailureDetected(summary)
             THEN Return(r, "dispatch",
                         create_error_response("SUMMARY_GENERATION_FAILED", 500), calls)
             ELSE Return(r, "dispatch",
                         create_success_response([video_id |-> rq[r].video_id,
                                                  summary |-> summary]),
                         calls)
    /\ UNCHANGED <<tts, fs, cli, urlIn, urlOut, hist, got>>

\* lines 202-214
NotesOp(r) ==
    /\ rq[r].pc = "fetched"
    /\ rq[r].operation = <<"notes">>
    /\ \E outcome \in GenOutcomes :
         LET notes == generate_notes(rq[r].transcript, outcome)
             calls == Append(rq[r].calls, Call("generate_notes", rq[r].transcript, outcome.t, notes))
         IN  IF NotesFailureDetected(notes)
             THEN Return(r, "dispatch",
                         create_error_response("NOTES_GENERATION_FAILED", 500), calls)
             ELSE Return(r, "dispatch",
                         create_success_response([video_id |-> rq[r].video_id,
                                                  notes |-> notes]),
                         calls)
    /\ UNCHANGED <<tts, fs, cli, urlIn, urlOut, hist, got>>

\* lines 224-229: f"{audio_filename}.mp3" or f"summary_{video_id}.mp3", under AUDIO_DIR
AudioFile(audio_filename, video_id) ==
    IF JTruthy(audio_filename)
    THEN (IF audio_filename.j = "str" THEN audio_filename.s ELSE <<"5">>) \o <<".mp3">>
    ELSE <<"summary_">> \o video_id.v \o <<".mp3">>

\* lines 216-232: the summary, then the call of text_to_audio
AudioOp(r) ==
    /\ rq[r].pc = "fetched"
    /\ rq[r].operation = <<"audio">>
    /\ \E outcome \in GenOutcomes :
         LET summary == generate_summary(rq[r].transcript, outcome)
             calls == Append(rq[r].calls, Call("generate_summary", rq[r].transcript, outcome.t, summary))
             audio_file == AudioFile(rq[r].audio_filename, rq[r].video_id)
         IN  IF SummaryFailureDetected(summary)
             THEN /\ Return(r, "dispatch",
                            create_error_response("SUMMARY_GENERATION_FAILED", 500),
                            calls)
                  /\ UNCHANGED tts
             ELSE /\ rq' = [rq EXCEPT ![r].pc = "text_to_audio",
                                      ![r].summary = summary,
                                      ![r].audio_file = audio_file,
                                      ![r].calls = Append(calls,
                                          Call("text_to_audio", summary, "called", Pending))]
                  /\ TtsCall(r, AUDIO_DIR \o audio_file)
    /\ UNCHANGED <<fs, cli, urlIn, urlOut, hist, got>>

\* lines 234-246: text_to_audio has returned; stat the file and respond
AudioRespond(r) ==
    /\ rq[r].pc = "text_to_audio"
    /\ tts[r].pc = "returned"
    /\ LET audio_path == AUDIO_DIR \o rq[r].audio_file
       IN  IF Truthy(tts[r].ret)
           THEN IF audio_path \in DOMAIN fs
                THEN rq' = [rq EXCEPT
                         ![r].pc = "done", ![r].stage = "dispatch",
                         ![r].stat_data = fs[audio_path],
                         ![r].resp = create_success_response(
                             [video_id |-> rq[r].video_id,
                              audio_filename |-> rq[r].audio_file,
                              file_size_bytes |-> Len(fs[audio_path]),
                              download_url |-> <<"/api/audio/">> \o rq[r].audio_file,
                              summary |-> rq[r].summary])]
                ELSE Return(r, "dispatch", InternalError, rq[r].calls)
           ELSE Return(r, "dispatch",
                       create_error_response("AUDIO_GENERATION_FAILED", 500),
                       rq[r].calls)
    /\ UNCHANGED <<tts, fs, cli, urlIn, urlOut, hist, got>>

(***************************************************************************)
(* app.py: the interactive session under  if __name__ == "__main__"         *)
(***************************************************************************)
MaxChoices == 3     \* menu choices one session makes before it has to exit

CliUrls == {U_short, <<" ">> \o U_watch \o <<" ">>, U_vimeo, U_nopath, U_bracket}

CliFile == <<"summary.mp3">>    \* the default filename of text_to_audio

OffCli ==
    [pc |-> "off", video_id |-> None, transcript |-> None, choice |-> "",
     rounds |-> 0, out |-> {}, calls |-> <<>>, choice_calls |-> <<>>]

\* lines 291-302: read the URL, extract the video id
CliStart ==
    /\ cli.pc = "start"
    /\ \E typed \in CliUrls :
         LET yt_url == Strip(typed)
             video_id == get_video_id(yt_url)
             calls == <<Call("get_video_id", Str(yt_url), "none", video_id)>>
         IN  IF video_id.t = "raise"
             THEN cli' = [cli EXCEPT !.pc = "crashed", !.calls = calls,
                                     !.out = {"Traceback"}]
             ELSE IF ~Truthy(video_id)
             THEN cli' = [cli EXCEPT !.pc = "exit", !.calls = calls,
                                     !.out = {"Invalid or unsupported YouTube URL."}]
             ELSE cli' = [cli EXCEPT !.pc = "fetch", !.video_id = video_id,
                                     !.calls = calls,
                                     !.out = {"Valid video ID"}]
    /\ UNCHANGED <<rq, tts, fs, urlIn, urlOut, hist, got>>

\* lines 303-310 and 359-365: fetch the transcript
CliFetch ==
    /\ cli.pc = "fetch"
    /\ \E outcome \in CaptionOutcomes :
         LET transcript == get_transcript(cli.video_id, outcome)
             calls == Append(cli.calls, Call("get_transcript", cli.video_id, outcome.t, transcript))
             said == IF outcome.t = "raise"
                     THEN {"Transcript not available or could not be fetched"} ELSE {}
         IN  IF transcript.t = "raise"
             THEN cli' = [cli EXCEPT !.pc = "crashed", !.calls = calls,
                                     !.out = {"Traceback"}]
             ELSE IF Truthy(transcript)
             THEN cli' = [cli EXCEPT !.pc = "menu", !.transcript = transcript,
                                     !.calls = calls,
                                     !.out = {"Transcript fetched successfully."}]
             ELSE cli' = [cli EXCEPT !.pc = "exit", !.calls = calls,
                            !.out = said \cup {"Could not process the video because the transcript is unavailable."}]
    /\ UNCHANGED <<rq, tts, fs, urlIn, urlOut, hist, got>>

\* lines 324-331: choice 1, a written summary
CliSummary ==
    /\ cli.pc = "menu"
    /\ cli.rounds < MaxChoices
    /\ \E outcome \in GenOutcomes :
         LET summary == generate_summary(cli.transcript, outcome)
             c == Call("generate_summary", cli.transcript, outcome.t, summary)
         IN  cli' = [cli EXCEPT !.choice = "1", !.rounds = @ + 1,
                        !.calls = Append(@, c), !.choice_calls = <<c>>,
                        !.out = (IF outcome.t = "raise"
                                 THEN {"Error generating summary"} ELSE {})
                                \cup {"VIDEO SUMMARY"}]
    /\ UNCHANGED <<rq, tts, fs, urlIn, urlOut, hist, got>>

\* lines 333-340: choice 2, detailed notes
CliNotes ==
    /\ cli.pc = "menu"
    /\ cli.rounds < MaxChoices
    /\ \E outcome \in GenOutcomes :
         LET notes == generate_notes(cli.transcript, outcome)
             c == Call("generate_notes", cli.transcript, outcome.t, notes)
         IN  cli' = [cli EXCEPT !.choice = "2", !.rounds = @ + 1,
                        !.calls = Append(@, c), !.choice_calls = <<c>>,
                        !.out = (IF outcome.t = "raise"
                                 THEN {"Error generating notes"} ELSE {})
                                \cup {"DETAILED NOTES"}]
    /\ UNCHANGED <<rq, tts, fs, urlIn, urlOut, hist, got>>

\* lines 342-345: choice 3, the summary and the call of text_to_audio
CliAudio ==
    /\ cli.pc = "menu"
    /\ cli.rounds < MaxChoices
    /\ \E outcome \in GenOutcomes :
         LET summary_text == generate_summary(cli.transcript, outcome)
             c == Call("generate_summary", cli.transcript, outcome.t, summary_text)
             a == Call("text_to_audio", summary_text, "called", Pending)
         IN  cli' = [cli EXCEPT !.pc = "text_to_audio", !.choice = "3",
                        !.rounds = @ + 1,
                        !.calls = @ \o <<c, a>>, !.choice_calls = <<c, a>>,
                        !.out = IF outcome.t = "raise"
                                THEN {"Error generating summary"} ELSE {}]
    /\ TtsCall("cli", CliFile)
    /\ UNCHANGED <<rq, fs, urlIn, urlOut, hist, got>>

\* a session that ends when the audio file could not be created
CliAudioDoneOrExit ==
    /\ cli.pc = "text_to_audio"
    /\ tts["cli"].pc = "returned"
    /\ cli' = [cli EXCEPT !.pc = IF Truthy(tts["cli"].ret) THEN "menu" ELSE "exit",
                  !.out = @ \cup (IF Truthy(tts["cli"].ret)
                                  THEN {"Audio summary saved"}
                                  ELSE {"Could not save audio file",
                                        "Failed to create audio file"})]
    /\ UNCHANGED <<rq, tts, fs, urlIn, urlOut, hist, got>>

\* lines 346-350: text_to_audio has returned
CliAudioDone ==
    /\ cli.pc = "text_to_audio"
    /\ tts["cli"].pc = "returned"
    /\ cli' = [cli EXCEPT !.pc = "menu",
                  !.out = @ \cup (IF Truthy(tts["cli"].ret)
                                  THEN {"Audio summary saved"}
                                  ELSE {"Could not save audio file",
                                        "Failed to create audio file"})]
    /\ UNCHANGED <<rq, tts, fs, urlIn, urlOut, hist, got>>

\* lines 352-355: choice 4
CliExit ==
    /\ cli.pc = "menu"
    /\ cli' = [cli EXCEPT !.pc = "exit", !.choice = "4", !.choice_calls = <<>>,
                  !.out = {"Exiting application..."}]
    /\ UNCHANGED <<rq, tts, fs, urlIn, urlOut, hist, got>>

\* lines 357-358: anything else
CliInvalidChoice ==
    /\ cli.pc = "menu"
    /\ cli.rounds < MaxChoices
    /\ cli' = [cli EXCEPT !.choice = "other", !.rounds = @ + 1,
                  !.choice_calls = <<>>,
                  !.out = {"Invalid choice. Please enter a number between 1 and 4."}]
    /\ UNCHANGED <<rq, tts, fs, urlIn, urlOut, hist, got>>

(***************************************************************************)
(* Specifications                                                           *)
(***************************************************************************)
NoFiles == [f \in {} |-> <<>>]

NoHist == [served |-> {}, written |-> {}]
NoGet == [ep |-> "none"]

InitCommon ==
    /\ urlIn = [scheme |-> <<>>, host |-> <<>>, path |-> <<>>, query |-> <<>>,
                fragment |-> <<>>]
    /\ urlOut = Pending
    /\ rq = [r \in Reqs |-> IdleReq]
    /\ tts = [w \in Callers |-> IdleTts]
    /\ fs = NoFiles
    /\ hist = NoHist
    /\ got = NoGet

\* the HTTP server, freshly started
Init ==
    /\ InitCommon
    /\ cli = OffCli

TextToAudio(w) ==
    \/ TtsFailEarly(w)
    \/ TtsSaveOpen(w)
    \/ TtsWrite(w)
    \/ TtsSaveFail(w)
    \/ TtsSaveDone(w)

Handle(r) ==
    \/ ValidatePayload(r)
    \/ ResolveVideoId(r)
    \/ FetchTranscript(r)
    \/ TranscriptOp(r)
    \/ SummaryOp(r)
    \/ NotesOp(r)
    \/ AudioOp(r)
    \/ TextToAudio(r)
    \/ AudioRespond(r)

\* every body, one request on a freshly started server
Next == \E r \in Reqs : ReceiveOne(r) \/ Handle(r)

Spec == Init /\ [][Next]_vars

\* a request that was received is run to its return statement: each step of
\* the handler that can be taken is eventually taken
SpecLive == Spec /\ \A r \in Reqs : WF_vars(Handle(r))

\* requests handled concurrently
NextConc == \E r \in Reqs : ReceiveAny(r) \/ Handle(r)

SpecConc == Init /\ [][NextConc]_vars

\* the CLI
InitCli ==
    /\ InitCommon
    /\ cli = [OffCli EXCEPT !.pc = "start"]

NextCli ==
    \/ CliStart
    \/ CliFetch
    \/ CliSummary
    \/ CliNotes
    \/ CliAudio
    \/ TextToAudio("cli")
    \/ CliAudioDone
    \/ CliExit
    \/ CliInvalidChoice

SpecCli == InitCli /\ [][NextCli]_vars

\* either program: the server with one request, or one CLI session
InitPrograms ==
    /\ InitCommon
    /\ cli \in {OffCli, [OffCli EXCEPT !.pc = "start"]}

NextPrograms ==
    \/ cli.pc = "off" /\ Next
    \/ cli.pc # "off" /\ NextCli

SpecPrograms == InitPrograms /\ [][NextPrograms]_vars

\* one call of get_video_id on any of the URLs
InitUrl ==
    /\ urlIn \in UrlParts
    /\ urlOut = Pending
    /\ rq = [r \in Reqs |-> IdleReq]
    /\ tts = [w \in Callers |-> IdleTts]
    /\ fs = NoFiles
    /\ hist = NoHist
    /\ got = NoGet
    /\ cli = OffCli

CallGetVideoId ==
    /\ urlOut = Pending
    /\ urlOut' = get_video_id(Flatten(urlIn))
    /\ UNCHANGED <<urlIn, rq, tts, fs, cli, hist, got>>

NextUrl == CallGetVideoId

SpecUrl == InitUrl /\ [][NextUrl]_vars

(***************************************************************************)
(* flask-backend.py: the GET endpoints, and a server that answers one       *)
(* request after the other                                                  *)
(***************************************************************************)
\* the bodies a series of requests is checked on
FileBodies ==
    {JObj(JStr(U_short), JStr(o), Absent) : o \in ValidOperations}
    \cup {JObj(JStr(U_short), JStr(<<"audio">>), JStr(<<"..", "/", "x">>)),
          JObj(JStr(U_tiny), JStr(<<"transcript">>), Absent)}

\* the filenames GET /api/audio/<filename> is asked for
GetNames ==
    {<<"summary_", ID1, ".mp3">>, <<"..", "/", "x", ".mp3">>, <<"nope", ".mp3">>}

\* a request arrives while no other is in flight
ReceiveNext(r) ==
    /\ \A q \in Reqs \ {r} : rq[q].pc = "idle"
    /\ \E body \in FileBodies : Receive(r, body)

\* the response is sent and the locals of the handler are gone; hist keeps
\* the audio_filename of a success envelope and the file the request opened
Finish(r) ==
    /\ rq[r].pc = "done"
    /\ hist' = [served |-> hist.served \cup
                    (IF rq[r].resp.status = "success" /\ rq[r].operation = <<"audio">>
                     THEN {rq[r].resp.data.audio_filename} ELSE {}),
                written |-> hist.written \cup
                    (IF tts[r].opened THEN {tts[r].filename} ELSE {})]
    /\ rq' = [rq EXCEPT ![r] = IdleReq]
    /\ tts' = [tts EXCEPT ![r] = IdleTts]
    /\ UNCHANGED <<fs, cli, urlIn, urlOut, got>>

\* the rule '/api/audio/<filename>': <filename> is one path segment
RouteMatches(filename) == "/" \notin Elems(filename)

\* lines 321-324: the handler of a URL no rule matches
not_found == create_error_response("NOT_FOUND", 404)

\* lines 259-285: download_audio(filename)
download_audio(filename) ==
    LET file_path == AUDIO_DIR \o filename
    IN  IF file_path \notin DOMAIN fs
        THEN create_error_response("FILE_NOT_FOUND", 404)
        ELSE [status |-> "file", http |-> 200, download_name |-> filename]

\* AUDIO_DIR.glob("*.mp3"): the files directly in the audio directory whose
\* name ends in .mp3, by name
GlobMp3 ==
    {name \in {After(f, Len(AUDIO_DIR)) :
                   f \in {g \in DOMAIN fs : /\ Len(g) > Len(AUDIO_DIR)
                                            /\ Before(g, Len(AUDIO_DIR) + 1) = AUDIO_DIR}} :
        /\ "/" \notin Elems(name)
        /\ name[Len(name)] = ".mp3"}

\* lines 287-314: list_audio_files()
list_audio_files ==
    LET files == {[filename |-> name, size_bytes |-> Len(fs[AUDIO_DIR \o name])] :
                      name \in GlobMp3}
    IN  create_success_response([files |-> files, total_files |-> Cardinality(files)])

\* GET /api/audio/<filename>
GetAudio ==
    /\ \E filename \in GetNames :
         got' = [ep |-> "audio", filename |-> filename,
                 resp |-> IF RouteMatches(filename)
                          THEN download_audio(filename) ELSE not_found]
    /\ UNCHANGED <<rq, tts, fs, cli, hist, urlIn, urlOut>>

\* GET /api/files
GetFiles ==
    /\ got' = [ep |-> "files", resp |-> list_audio_files]
    /\ UNCHANGED <<rq, tts, fs, cli, hist, urlIn, urlOut>>

NextFiles ==
    \/ \E r \in Reqs : ReceiveNext(r) \/ Handle(r) \/ Finish(r)
    \/ GetAudio
    \/ GetFiles

SpecFiles == Init /\ [][NextFiles]_vars

(***************************************************************************)
(* What the properties below talk about                                     *)
(***************************************************************************)
HasCall(calls, fn) == \E i \in 1..Len(calls) : calls[i].fn = fn

CountCalls(calls, fns) == Cardinality({i \in 1..Len(calls) : calls[i].fn \in fns})

\* the generative service raised inside generate_summary or generate_notes
GenRaised(calls) ==
    \E i \in 1..Len(calls) :
        calls[i].fn \in {"generate_summary", "generate_notes"} /\ calls[i].ext = "raise"

Done(r) == rq[r].pc = "done"
IsError(resp, http) == resp.status = "error" /\ resp.http = http

MissingOrEmpty(x) == x = Absent \/ x = JStr(<<>>)

\* the payload does not carry a url and an operation among the four
\* (the operation compared without regard to case)
PayloadFailsValidation(body) ==
    \/ body.j # "obj"
    \/ MissingOrEmpty(body.url)
    \/ MissingOrEmpty(body.operation)
    \/ body.operation.j # "str"
    \/ [i \in 1..Len(body.operation.s) |-> Lower(body.operation.s[i])]
           \notin ValidOperations

\* the url of a payload that passes validation yields no identifier
UrlYieldsNoId(body) ==
    /\ ~PayloadFailsValidation(body)
    /\ \/ body.url.j # "str"
       \/ ~Truthy(get_video_id(body.url.s))

\* C1: an audio request whose generate_summary call failed ends with the
\* generation-failed error and HTTP 500, never calls text_to_audio and writes
\* no audio file.
C1_AudioStopsWhenGenerationFails ==
    \A r \in Reqs :
        (rq[r].operation = <<"audio">> /\ GenRaised(rq[r].calls))
        => /\ ~HasCall(rq[r].calls, "text_to_audio")
           /\ ~tts[r].opened
           /\ Done(r) => /\ IsError(rq[r].resp, 500)
                         /\ rq[r].resp.error_code = "SUMMARY_GENERATION_FAILED"

\* C2: a summary or notes request whose generative call failed ends with an
\* error envelope and HTTP 500, never with a success envelope.
C2_GenerationFailureIsAnError ==
    \A r \in Reqs :
        (Done(r) /\ rq[r].operation \in {<<"summary">>, <<"notes">>}
                 /\ GenRaised(rq[r].calls))
        => IsError(rq[r].resp, 500)

\* C3: the HTTP status of a response follows from the stage that failed: 400
\* for a payload that fails validation or a URL without identifier, 404 for an
\* unavailable transcript, 500 for a failed generation or audio synthesis.
C3_StatusFollowsFailedStage ==
    \A r \in Reqs :
        Done(r) =>
            /\ (PayloadFailsValidation(rq[r].body) \/ UrlYieldsNoId(rq[r].body))
                   => IsError(rq[r].resp, 400)
            /\ (\E i \in 1..Len(rq[r].calls) :
                    rq[r].calls[i].fn = "get_transcript" /\ ~Truthy(rq[r].calls[i].ret))
                   => IsError(rq[r].resp, 404)
            /\ (GenRaised(rq[r].calls) \/ tts[r].ext = "raise")
                   => IsError(rq[r].resp, 500)
            /\ rq[r].resp.status = "error" =>
                   /\ rq[r].stage \in {"validate", "resolve"} => rq[r].resp.http = 400
                   /\ rq[r].stage = "fetch" => rq[r].resp.http = 404
                   /\ rq[r].stage = "dispatch" => rq[r].resp.http = 500

\* C4: a request whose payload fails validation, or whose URL yields no
\* identifier, is answered with HTTP 400 (INVALID_URL for the URL) and calls
\* none of get_transcript, generate_summary, generate_notes, text_to_audio.
C4_BadRequestIs400WithoutCalls ==
    \A r \in Reqs :
        (Done(r) /\ (PayloadFailsValidation(rq[r].body) \/ UrlYieldsNoId(rq[r].body)))
        => /\ IsError(rq[r].resp, 400)
           /\ UrlYieldsNoId(rq[r].body) => rq[r].resp.error_code = "INVALID_URL"
           /\ CountCalls(rq[r].calls, {"get_transcript", "generate_summary",
                                       "generate_notes", "text_to_audio"}) = 0
           /\ ~tts[r].opened

\* the v parameter a query carries: the value of its first non-empty v
QueryV(query) ==
    CASE query = <<"?", "v", "=", ID1>> -> <<ID1>>
      [] query = <<"?", "v", "=", ID1, "&", "t", "=", "1">> -> <<ID1>>
      [] query = <<"?", "t", "=", "1", "&", "v", "=", ID2>> -> <<ID2>>
      [] OTHER -> <<>>

\* the host of a URL: what follows "//", without the port, in lower case
HostOf(p) ==
    IF p.scheme = <<>> \/ p.host[1] \in Delims THEN "" ELSE Lower(p.host[1])

\* C5: get_video_id returns exactly ID for ...youtube.com...?v=ID and for
\* youtu.be/ID, returns None for any other host and when the v parameter or
\* the path is absent or empty, and never raises.
C5_GetVideoIdContract ==
    urlOut # Pending =>
        /\ urlOut.t # "raise"
        /\ HostOf(urlIn) \in {"www.youtube.com", "youtube.com"} =>
               urlOut = IF QueryV(urlIn.query) # <<>>
                        THEN Str(QueryV(urlIn.query)) ELSE None
        /\ HostOf(urlIn) = "youtu.be" =>
               urlOut = IF Len(urlIn.path) = 2 THEN Str(<<urlIn.path[2]>>) ELSE None
        /\ HostOf(urlIn) \notin {"www.youtube.com", "youtube.com", "youtu.be"} =>
               urlOut = None

\* the calls of one request or session come in the order resolve, fetch,
\* generate, synthesize, each from the result of the one before
OrderedCalls(calls) ==
    \A i \in 1..Len(calls) :
        /\ calls[i].fn = "get_transcript" =>
               \E j \in 1..(i-1) : /\ calls[j].fn = "get_video_id"
                                   /\ Truthy(calls[j].ret)
                                   /\ calls[i].arg = calls[j].ret
        /\ calls[i].fn \in {"generate_summary", "generate_notes"} =>
               \E j \in 1..(i-1) : /\ calls[j].fn = "get_transcript"
                                   /\ Truthy(calls[j].ret)
                                   /\ calls[i].arg = calls[j].ret
        /\ calls[i].fn = "text_to_audio" =>
               /\ i > 1
               /\ calls[i-1].fn = "generate_summary"
               /\ calls[i].arg = calls[i-1].ret
               /\ \E j \in 1..(i-1) : calls[j].fn = "get_transcript" /\ Truthy(calls[j].ret)

\* C6: in the HTTP pipeline and in the CLI, no generative call and no audio
\* write happens unless get_transcript was called before for the resolved
\* identifier and returned a non-empty transcript; the order is resolve, fetch,
\* generate, synthesize.
C6_TranscriptBeforeContent ==
    /\ \A r \in Reqs :
           /\ OrderedCalls(rq[r].calls)
           /\ tts[r].pc # "idle" => HasCall(rq[r].calls, "text_to_audio")
    /\ OrderedCalls(cli.calls)
    /\ tts["cli"].pc # "idle" => HasCall(cli.calls, "text_to_audio")
    /\ fs # NoFiles => \/ HasCall(cli.calls, "text_to_audio")
                       \/ \E r \in Reqs : HasCall(rq[r].calls, "text_to_audio")

C6_Witness ==
    \E r \in Reqs : tts[r].opened /\ tts[r].offset >= 1 /\ Len(rq[r].calls) = 4

\* what a component returns for each outcome of its external service
Absorbed(calls) ==
    \A i \in 1..Len(calls) :
        /\ calls[i].fn \in {"get_transcript", "generate_summary", "generate_notes"}
               => calls[i].ret.t # "raise"
        /\ (calls[i].fn = "get_transcript" /\ calls[i].ext = "raise")
               => calls[i].ret = None
        /\ (calls[i].fn = "generate_summary" /\ calls[i].ext = "raise")
               => calls[i].ret = Str(SummaryFailedText)
        /\ (calls[i].fn = "generate_notes" /\ calls[i].ext = "raise")
               => calls[i].ret = Str(NotesFailedText)

\* C7: a failure of the captioning, generative or speech service never
\* reaches the caller: get_transcript returns None, generate_summary and
\* generate_notes return their fixed failure string, text_to_audio returns
\* None, and on success text_to_audio returns the filename it was given.
C7_FailuresAbsorbedAtBoundary ==
    /\ \A r \in Reqs : Absorbed(rq[r].calls)
    /\ Absorbed(cli.calls)
    /\ \A w \in Callers :
           tts[w].pc = "returned" =>
               /\ tts[w].ret.t # "raise"
               /\ tts[w].ext = "raise" => tts[w].ret = None
               /\ tts[w].ext = "ok" => tts[w].ret = Str(tts[w].filename)

C7_Witness ==
    \E r \in Reqs :
        /\ Done(r)
        /\ \E i \in 1..Len(rq[r].calls) :
               rq[r].calls[i].fn = "get_transcript" /\ rq[r].calls[i].ext = "raise"

\* the messages the CLI prints for the error kinds
InvalidUrlMessage == "Invalid or unsupported YouTube URL."
TranscriptUnavailableMessage ==
    "Could not process the video because the transcript is unavailable."
GenerationFailedMessages == {"Error generating summary", "Error generating notes"}
AudioFailedMessage == "Failed to create audio file"
ErrorMessages ==
    {InvalidUrlMessage, TranscriptUnavailableMessage, AudioFailedMessage}
    \cup GenerationFailedMessages

\* C8 as stated: after the message of any error kind the menu is presented
\* (again), and the program ends only when the user enters choice 4.
C8_EveryErrorReturnsToMenu ==
    /\ cli.out \cap ErrorMessages # {} => cli.pc \in {"menu", "text_to_audio"}
    /\ cli.pc = "exit" => cli.choice = "4"

\* C8, amended: after a failed generation or a failed audio synthesis the
\* message of that kind is printed and the menu is presented again; the menu
\* loop, once entered, ends only on choice 4; when get_video_id returns no
\* identifier or get_transcript returns no transcript, the message of that kind
\* is printed and the program ends without presenting the menu.
C8_MenuLoopContinuesAfterFailedChoice ==
    /\ GenRaised(cli.choice_calls) => cli.out \cap GenerationFailedMessages # {}
    /\ (cli.pc = "menu" /\ cli.choice = "3" /\ tts["cli"].ext = "raise")
           => AudioFailedMessage \in cli.out
    /\ cli.out \cap (GenerationFailedMessages \cup {AudioFailedMessage}) # {}
           => cli.pc \in {"menu", "text_to_audio"}
    /\ (cli.pc = "exit" /\ Truthy(cli.transcript)) => cli.choice = "4"
    /\ (cli.pc = "exit" /\ ~Truthy(cli.transcript)) =>
           /\ cli.choice = ""
           /\ IF Truthy(cli.video_id)
              THEN TranscriptUnavailableMessage \in cli.out
              ELSE InvalidUrlMessage \in cli.out
    /\ cli.pc = "crashed" => cli.calls[1].ret = Raise

C8_Witness ==
    /\ cli.pc = "menu"
    /\ cli.rounds < MaxChoices
    /\ AudioFailedMessage \in cli.out
    /\ tts["cli"].opened

\* C9: nothing serializes the writes to the audio directory: a request can
\* always open its target file, also while another request has the same file
\* open, and can always write its next chunk; the size a request reports is the
\* size of whatever the file holds when the request looks.
C9_AudioWritesUnserialized ==
    \A r \in Reqs :
        /\ tts[r].pc = "called" => ENABLED TtsSaveOpen(r)
        /\ (tts[r].pc = "open" /\ tts[r].offset < MaxChunks) => ENABLED TtsWrite(r)
        /\ (Done(r) /\ rq[r].resp.status = "success" /\ rq[r].operation = <<"audio">>)
               => rq[r].resp.data.file_size_bytes = Len(rq[r].stat_data)

\* a request reports success, with the size and download URL of a file whose
\* content was written by the other request
C9_Witness ==
    \E r \in Reqs : \E q \in Reqs \ {r} :
        /\ Done(r)
        /\ rq[r].resp.status = "success"
        /\ rq[r].operation = <<"audio">>
        /\ rq[q].audio_file = rq[r].audio_file
        /\ rq[r].stat_data # <<>>
        /\ \A i \in 1..Len(rq[r].stat_data) : rq[r].stat_data[i] = q
        /\ rq[r].resp.data.file_size_bytes = Len(rq[r].stat_data)

\* C10: no retries: one request calls each external service at most once,
\* whatever the outcome; so does one menu choice of the CLI.
C10_EachServiceAtMostOnce ==
    /\ \A r \in Reqs :
           /\ CountCalls(rq[r].calls, {"get_transcript"}) <= 1
           /\ CountCalls(rq[r].calls, {"generate_summary", "generate_notes"}) <= 1
           /\ CountCalls(rq[r].calls, {"text_to_audio"}) <= 1
    /\ CountCalls(cli.calls, {"get_transcript"}) <= 1
    /\ CountCalls(cli.choice_calls, {"generate_summary", "generate_notes"}) <= 1
    /\ CountCalls(cli.choice_calls, {"text_to_audio"}) <= 1

C10_Witness ==
    \E r \in Reqs :
        /\ Done(r)
        /\ rq[r].operation = <<"summary">>
        /\ GenRaised(rq[r].calls)

(***************************************************************************)
(* C11: once an audio operation has answered success with audio_filename F, *)
(* every later GET /api/audio/F streams the file (it is never a 404) and    *)
(* every later GET /api/files lists F; a GET /api/audio/<filename> for a    *)
(* filename that no audio operation has written answers 404 FILE_NOT_FOUND. *)
(* This is claimed of every audio_filename the endpoint accepts.            *)
(***************************************************************************)
\* the files an audio operation has opened so far, finished or in flight
EverOpened ==
    hist.written \cup {tts[w].filename : w \in {x \in Callers : tts[x].opened}}

Listed(resp) == {file.filename : file \in resp.data.files}

C11_ServedArtifactStaysAvailable ==
    [][got' # got =>
         /\ got'.ep = "audio" =>
              /\ got'.filename \in hist.served => got'.resp.http = 200
              /\ (RouteMatches(got'.filename)
                     /\ AUDIO_DIR \o got'.filename \notin EverOpened)
                   => /\ got'.resp.http = 404
                      /\ got'.resp.error_code = "FILE_NOT_FOUND"
         /\ got'.ep = "files" =>
              \A F \in hist.served : F \in Listed(got'.resp)]_vars

(***************************************************************************)
(* C12: every identifier handed to get_transcript, by the HTTP handler and  *)
(* by the interactive session, has the 11-character shape of a video id;    *)
(* a URL on a supported host whose v parameter or path is not 11 characters *)
(* long is rejected as an invalid URL before any transcript is fetched.     *)
(***************************************************************************)
IdLength == 11      \* app.py line 101: "YouTube video ID (11 characters)"

RECURSIVE CharLen(_)
CharLen(s) == IF s = <<>> THEN 0 ELSE Len(Head(s)) + CharLen(Tail(s))

HasIdShape(video_id) == video_id.t = "str" /\ CharLen(video_id.v) = IdLength

FetchedIds(calls) ==
    {calls[i].arg : i \in {j \in 1..Len(calls) : calls[j].fn = "get_transcript"}}

C12_OnlyWellShapedIdsAreFetched ==
    /\ \A video_id \in FetchedIds(cli.calls) : HasIdShape(video_id)
    /\ \A r \in Reqs :
         /\ \A video_id \in FetchedIds(rq[r].calls) : HasIdShape(video_id)
         /\ (Done(r) /\ Truthy(rq[r].video_id) /\ ~HasIdShape(rq[r].video_id))
              => /\ IsError(rq[r].resp, 400)
                 /\ rq[r].resp.error_code = "INVALID_URL"

(***************************************************************************)
(* C13: every POST /api/process ends with exactly one response envelope,    *)
(* given that each external call returns or raises: the handler never runs  *)
(* past its dispatch without returning, and the response is either a        *)
(* success (status 'success', a data field, HTTP 200) or an error (status   *)
(* 'error', an error_code, an HTTP status of 400 or more), never a mixture. *)
(***************************************************************************)
IsSuccessEnvelope(resp) ==
    /\ resp.status = "success"
    /\ "data" \in DOMAIN resp
    /\ "error_code" \notin DOMAIN resp
    /\ resp.http = 200

IsErrorEnvelope(resp) ==
    /\ resp.status = "error"
    /\ "error_code" \in DOMAIN resp
    /\ "data" \notin DOMAIN resp
    /\ resp.http >= 400

C13_EveryRequestEndsWithOneEnvelope ==
    /\ \A r \in Reqs : rq[r].pc = "received" ~> Done(r)
    /\ [](\A r \in Reqs :
            Done(r) => IsSuccessEnvelope(rq[r].resp) \/ IsErrorEnvelope(rq[r].resp))
    /\ [][\A r \in Reqs : Done(r) => rq'[r] = rq[r]]_vars

C13_Witness ==
    \E r \in Reqs :
        /\ Done(r)
        /\ rq[r].operation = <<"audio">>
        /\ IsSuccessEnvelope(rq[r].resp)
        /\ tts[r].pc = "returned"

(***************************************************************************)
(* C14: the audio directory is changed only by an audio operation that      *)
(* succeeds, and only at that operation's own target file.  The transcript, *)
(* summary and notes operations, the GET endpoints and every request that   *)
(* ends with an error envelope (AUDIO_GENERATION_FAILED included) leave the *)
(* set of files and their contents as they were; an audio operation that    *)
(* succeeds creates or overwrites exactly one file, the one its response    *)
(* names.                                                                   *)
(***************************************************************************)
\* the files of fs and fs' other than f are the same, with the same content
SameExceptAt(f) ==
    /\ DOMAIN fs' \ {f} = DOMAIN fs \ {f}
    /\ \A g \in DOMAIN fs \ {f} : fs'[g] = fs[g]

C14_OnlySucceedingAudioChangesFiles ==
    /\ [][fs' # fs =>
            \E r \in Reqs :
                /\ rq[r].pc = "text_to_audio"
                /\ rq[r].operation = <<"audio">>
                /\ tts[r].filename = AUDIO_DIR \o rq[r].audio_file
                /\ SameExceptAt(tts[r].filename)]_vars
    /\ [](\A r \in Reqs :
            (Done(r) /\ tts[r].opened) =>
                /\ rq[r].operation = <<"audio">>
                /\ IsSuccessEnvelope(rq[r].resp)
                /\ rq[r].resp.data.audio_filename = rq[r].audio_file)

====
